---- MODULE Spec2Model ----
(***************************************************************************)
(* The sponsor fund ledger of the LMS backend (app1): SponsorProfile       *)
(* balances, the SponsorTransaction log and Sponsorship records, as they   *)
(* are read and written by SponsorProfileViewSet and SponsorshipViewSet.   *)
(*                                                                         *)
(* Each HTTP request is served by a worker.  The views open no             *)
(* transaction and take no row lock, so every ORM statement (SELECT,       *)
(* UPDATE, INSERT) commits on its own and the statements of concurrent     *)
(* requests interleave.  One action of the model is one ORM statement of   *)
(* a handler together with the Python code that runs before the next one.  *)
(*                                                                         *)
(* Money is counted in thousandths of a currency unit, so that an amount   *)
(* with more than two decimal places can be written; a DecimalField with   *)
(* decimal_places=2 stores multiples of Cent only (see Quantize).          *)
(***************************************************************************)
EXTENDS Integers, Sequences, FiniteSets, TLC

\* ----------------------------------------------------------------- bounds
\* The SponsorTransaction log is cut off at MaxLedger rows and the
\* Sponsorship table at MaxSponsorships rows.
MaxLedger == 3
MaxSponsorships == 2
\* SerialSpec admits a request that may append a row only while the log
\* holds fewer than MaxSerialLedger rows.
MaxSerialLedger == 2
\* AdminSpec admits a request that may raise a balance only while every
\* balance is below MaxBalance thousandths.
MaxBalance == 30
\* The Enrollment table is cut off at MaxEnrollments rows.
MaxEnrollments == 2
\* The Assessment and Submission tables are cut off likewise.
MaxAssessments == 2
MaxSubmissions == 2

\* ------------------------------------------------------ program constants
\* decimal_places=2: one stored step is 0.01, i.e. 10 thousandths.
Cent == 10

\* ------------------------------------------------------------ identities
SponsorGroup == {"s1", "s2"}
AdminGroup == {"ad"}
StudentGroup == {"st", "st2"}
InstructorGroup == {"in1", "in2"}
Users == SponsorGroup \cup AdminGroup \cup StudentGroup \cup InstructorGroup

\* SponsorProfile.sponsor is a OneToOneField: a profile is identified here
\* with the user that owns it, and a primary key with that user's name.
ProfileKeys == Users

\* Workers that serve requests concurrently.
Requests == {"r1", "r2"}

\* Values a request carries.  Absent is a missing field, Text a string that
\* is no number, NaN the string "NaN"; Num(n) is the number n/1000.
Num(n) == [t |-> "num", v |-> n]
Absent == [t |-> "absent", v |-> 0]
Text == [t |-> "text", v |-> 0]
NaN == [t |-> "nan", v |-> 0]

VARIABLES profiles, ledger, sponsorships, enrollments, transactions,
          assessments, submissions, req, overlap

vars == <<profiles, ledger, sponsorships, enrollments, transactions,
          assessments, submissions, req, overlap>>

\* ------------------------------------------------------------- helpers
\* A DecimalField value as the database keeps it: rounded to two decimal
\* places, ties to the even cent (decimal's default context rounding).
Quantize(x) ==
    LET q == x \div Cent
        m == x % Cent
    IN  IF 2 * m < Cent THEN q * Cent
        ELSE IF 2 * m > Cent THEN (q + 1) * Cent
        ELSE IF q % 2 = 0 THEN q * Cent ELSE (q + 1) * Cent

\* Python truth value of a request field: None and the number 0 are falsy.
Falsy(x) == x.t = "absent" \/ (x.t = "num" /\ x.v = 0)

\* Decimal(str(x)): "ok" for a number, "nan" for the string "NaN" (which
\* Decimal accepts), "invalid" (InvalidOperation) for anything else.
DecimalOf(x) ==
    IF x.t = "num" THEN "ok" ELSE IF x.t = "nan" THEN "nan" ELSE "invalid"

\* serializers.DecimalField(decimal_places=2) of a ModelSerializer: a number
\* with at most two decimal places; no minimum is set on any money field.
ValidMoneyField(x) == x.t = "num" /\ x.v % Cent = 0

NoProfile == [exists |-> FALSE, total_funds |-> 0]

Idle ==
    [pc |-> "idle", op |-> "none", pk |-> "none",
     value |-> 0, total_funds |-> 0, student |-> "none", course |-> "none",
     status |-> 0, error |-> "none", payload |-> "none",
     listing |-> <<>>, deducted |-> 0, students |-> 0, average |-> 0]

InFlight(r) == req[r].pc \notin {"idle", "done"}

Pending == Cardinality({q \in Requests : InFlight(q)})

\* The cut-off: a request that will append rows is admitted only while the
\* rows it and the requests in flight may append still fit.
RoomInLedger == Len(ledger) + Pending < MaxLedger
RoomInSponsorships ==
    Len(sponsorships)
      + Cardinality({q \in Requests :
            req[q].op = "create_sponsorship" /\ req[q].pc = "insert"})
      < MaxSponsorships

\* The response of a finished request; the worker keeps nothing else of it
\* but the profile it addressed and the numbers it worked with.
Respond(base, status, error) ==
    [base EXCEPT !.pc = "done", !.status = status, !.error = error,
                 !.student = "none", !.course = "none"]

\* r starts while the requests in overlap'[r] are in flight.
Started(r) == overlap' = [overlap EXCEPT ![r] = {q \in Requests : InFlight(q)}]

\* get_queryset handing every profile to a caller of the Sponsor group.
get_queryset_unscoped(user) ==
    IF user \in AdminGroup \/ user \in SponsorGroup
    THEN {k \in ProfileKeys : profiles[k].exists}
    ELSE {}

\* SponsorProfileViewSet.get_queryset: the profiles a caller may address.
get_queryset(user) ==
    IF user \in AdminGroup
    THEN {k \in ProfileKeys : profiles[k].exists}
    ELSE IF user \in SponsorGroup
    THEN {k \in {user} : profiles[k].exists}
    ELSE {}

Init ==
    /\ profiles = [k \in ProfileKeys |-> NoProfile]
    /\ ledger = <<>>
    /\ sponsorships = <<>>
    /\ enrollments = <<>>
    /\ transactions = <<>>
    /\ assessments = <<>>
    /\ submissions = <<>>
    /\ req = [r \in Requests |-> Idle]
    /\ overlap = [r \in Requests |-> {}]

\* ---------------------------------------------------------- fund operations
\* A request as the handler receives it.
Request(op, pk, student) ==
    [Idle EXCEPT !.op = op, !.pk = pk, !.student = student]

\* Course rows are given: c1 is free, c2 is paid, c3 has a price but is not
\* marked as paid.  A Sponsorship may name no course.
CourseRows ==
    [c1 |-> [is_paid |-> FALSE, price |-> 0, instructor |-> "in1"],
     c2 |-> [is_paid |-> TRUE, price |-> 2000 * Cent, instructor |-> "in1"],
     c3 |-> [is_paid |-> FALSE, price |-> 2000 * Cent, instructor |-> "in2"]]
Courses == DOMAIN CourseRows
NoCourse == "none"

DbUnchanged ==
    UNCHANGED <<profiles, ledger, sponsorships, enrollments, transactions,
                assessments, submissions>>

\* SponsorProfileViewSet.add_funds up to its first write: get_object, the
\* choice of the amount field, Decimal(str(amount)) and the sign test.
add_funds(r, user, pk, amount, alias) ==
    LET rq == Request("add_funds", pk, "none")
        given == IF Falsy(amount) THEN alias ELSE amount
    IN  /\ req[r].pc = "idle"
        /\ DbUnchanged
        /\ IF pk \notin get_queryset(user)
           THEN /\ req' = [req EXCEPT ![r] = Respond(rq, 404, "NotFound")]
                /\ UNCHANGED overlap
           ELSE IF DecimalOf(given) = "invalid"
           THEN /\ req' = [req EXCEPT ![r] = Respond(rq, 400, "InvalidAmount")]
                /\ UNCHANGED overlap
           ELSE IF DecimalOf(given) = "nan"
           THEN /\ req' = [req EXCEPT ![r] = Respond(rq, 500, "InvalidOperation")]
                /\ UNCHANGED overlap
           ELSE IF given.v <= 0
           THEN /\ req' = [req EXCEPT ![r] = Respond(rq, 400, "InvalidAmount")]
                /\ UNCHANGED overlap
           ELSE /\ RoomInLedger
                /\ req' = [req EXCEPT ![r] =
                       [rq EXCEPT !.pc = "save", !.value = given.v,
                                  !.total_funds = profiles[pk].total_funds]]
                /\ Started(r)

\* sponsor_profile.total_funds += amount; sponsor_profile.save()
add_funds_save(r) ==
    LET new == req[r].total_funds + req[r].value
    IN  /\ req[r].pc = "save"
        /\ req[r].op = "add_funds"
        /\ profiles' = [profiles EXCEPT
               ![req[r].pk] = [exists |-> TRUE, total_funds |-> Quantize(new)]]
        /\ req' = [req EXCEPT ![r].pc = "record", ![r].total_funds = new]
        /\ UNCHANGED <<ledger, sponsorships, enrollments, overlap,
                    transactions, assessments, submissions>>

\* SponsorTransaction.objects.create(... "ADD" ...) and the response, which
\* carries str(sponsor_profile.total_funds) of the object in memory.
add_funds_record(r) ==
    /\ req[r].pc = "record"
    /\ req[r].op = "add_funds"
    /\ ledger' = Append(ledger,
           [sponsor |-> req[r].pk, transaction_type |-> "ADD",
            amount |-> Quantize(req[r].value),
            balance_after |-> Quantize(req[r].total_funds),
            description |-> [text |-> "Added", student |-> "none"]])
    /\ req' = [req EXCEPT ![r] = Respond(req[r], 200, "none")]
    /\ UNCHANGED <<profiles, sponsorships, enrollments, overlap,
                    transactions, assessments, submissions>>

\* deduct_funds with the funds test turned round (amount < total_funds).
deduct_funds_test_reversed(r, user, pk, amount) ==
    LET rq == Request("deduct_funds", pk, "none")
    IN  /\ req[r].pc = "idle"
        /\ DbUnchanged
        /\ IF pk \notin get_queryset(user)
           THEN /\ req' = [req EXCEPT ![r] = Respond(rq, 404, "NotFound")]
                /\ UNCHANGED overlap
           ELSE IF DecimalOf(amount) = "invalid"
           THEN /\ req' = [req EXCEPT ![r] = Respond(rq, 400, "InvalidAmount")]
                /\ UNCHANGED overlap
           ELSE IF DecimalOf(amount) = "nan"
           THEN /\ req' = [req EXCEPT ![r] = Respond(rq, 500, "InvalidOperation")]
                /\ UNCHANGED overlap
           ELSE IF amount.v <= 0
           THEN /\ req' = [req EXCEPT ![r] = Respond(rq, 400, "InvalidAmount")]
                /\ UNCHANGED overlap
           ELSE IF amount.v < profiles[pk].total_funds
           THEN /\ req' = [req EXCEPT ![r] =
                       Respond([rq EXCEPT !.value = amount.v,
                                          !.total_funds = profiles[pk].total_funds],
                               400, "InsufficientFunds")]
                /\ UNCHANGED overlap
           ELSE /\ RoomInLedger
                /\ req' = [req EXCEPT ![r] =
                       [rq EXCEPT !.pc = "save", !.value = amount.v,
                                  !.total_funds = profiles[pk].total_funds]]
                /\ Started(r)

\* SponsorProfileViewSet.deduct_funds up to its first write: get_object,
\* Decimal(str(amount)), the sign test and the funds test.
deduct_funds(r, user, pk, amount) ==
    LET rq == Request("deduct_funds", pk, "none")
    IN  /\ req[r].pc = "idle"
        /\ DbUnchanged
        /\ IF pk \notin get_queryset(user)
           THEN /\ req' = [req EXCEPT ![r] = Respond(rq, 404, "NotFound")]
                /\ UNCHANGED overlap
           ELSE IF DecimalOf(amount) = "invalid"
           THEN /\ req' = [req EXCEPT ![r] = Respond(rq, 400, "InvalidAmount")]
                /\ UNCHANGED overlap
           ELSE IF DecimalOf(amount) = "nan"
           THEN /\ req' = [req EXCEPT ![r] = Respond(rq, 500, "InvalidOperation")]
                /\ UNCHANGED overlap
           ELSE IF amount.v <= 0
           THEN /\ req' = [req EXCEPT ![r] = Respond(rq, 400, "InvalidAmount")]
                /\ UNCHANGED overlap
           ELSE IF profiles[pk].total_funds < amount.v
           THEN /\ req' = [req EXCEPT ![r] =
                       Respond([rq EXCEPT !.value = amount.v,
                                          !.total_funds = profiles[pk].total_funds],
                               400, "InsufficientFunds")]
                /\ UNCHANGED overlap
           ELSE /\ RoomInLedger
                /\ req' = [req EXCEPT ![r] =
                       [rq EXCEPT !.pc = "save", !.value = amount.v,
                                  !.total_funds = profiles[pk].total_funds]]
                /\ Started(r)

\* sponsor_profile.total_funds -= amount; sponsor_profile.save()
deduct_funds_save(r) ==
    LET new == req[r].total_funds - req[r].value
    IN  /\ req[r].pc = "save"
        /\ req[r].op = "deduct_funds"
        /\ profiles' = [profiles EXCEPT
               ![req[r].pk] = [exists |-> TRUE, total_funds |-> Quantize(new)]]
        /\ req' = [req EXCEPT ![r].pc = "record", ![r].total_funds = new]
        /\ UNCHANGED <<ledger, sponsorships, enrollments, overlap,
                    transactions, assessments, submissions>>

\* SponsorTransaction.objects.create(... "DEDUCT" ...) and the response.
deduct_funds_record(r) ==
    /\ req[r].pc = "record"
    /\ req[r].op = "deduct_funds"
    /\ ledger' = Append(ledger,
           [sponsor |-> req[r].pk, transaction_type |-> "DEDUCT",
            amount |-> Quantize(req[r].value),
            balance_after |-> Quantize(req[r].total_funds),
            description |-> [text |-> "Deducted", student |-> "none"]])
    /\ req' = [req EXCEPT ![r] = Respond(req[r], 200, "none")]
    /\ UNCHANGED <<profiles, sponsorships, enrollments, overlap,
                    transactions, assessments, submissions>>

\* ------------------------------------------------------------ sponsorships
\* create_sponsorship without the PermissionDenied of perform_create: a
\* caller with no SponsorProfile goes on to serializer.save.
create_sponsorship_no_denial(r, user, student, course, amount) ==
    LET rq == [Request("create_sponsorship", user, student) EXCEPT !.course = course]
    IN  /\ req[r].pc = "idle"
        /\ DbUnchanged
        /\ IF ~ValidMoneyField(amount)
           THEN /\ req' = [req EXCEPT ![r] = Respond(rq, 400, "InvalidAmount")]
                /\ UNCHANGED overlap
           ELSE /\ RoomInLedger
                /\ RoomInSponsorships
                /\ req' = [req EXCEPT ![r] =
                       [rq EXCEPT !.pc = "insert", !.value = amount.v,
                                  !.total_funds = profiles[user].total_funds]]
                /\ Started(r)

\* SponsorshipViewSet: the serializer's validation of the payload, then
\* perform_create up to SponsorProfile.objects.get(sponsor=user).
create_sponsorship(r, user, student, course, amount) ==
    LET rq == [Request("create_sponsorship", user, student) EXCEPT !.course = course]
    IN  /\ req[r].pc = "idle"
        /\ DbUnchanged
        /\ IF ~ValidMoneyField(amount)
           THEN /\ req' = [req EXCEPT ![r] = Respond(rq, 400, "InvalidAmount")]
                /\ UNCHANGED overlap
           ELSE IF ~profiles[user].exists
           THEN /\ req' = [req EXCEPT ![r] = Respond(rq, 403, "PermissionDenied")]
                /\ UNCHANGED overlap
           ELSE /\ RoomInLedger
                /\ RoomInSponsorships
                /\ req' = [req EXCEPT ![r] =
                       [rq EXCEPT !.pc = "insert", !.value = amount.v,
                                  !.total_funds = profiles[user].total_funds]]
                /\ Started(r)

\* serializer.save(sponsor=sponsor_profile): SponsorshipSerializer.create
\* checks the caller's group and profile and inserts the Sponsorship row.
SponsorshipSerializer_create(r) ==
    /\ req[r].pc = "insert"
    /\ req[r].op = "create_sponsorship"
    /\ UNCHANGED <<profiles, ledger, enrollments, overlap,
                    transactions, assessments, submissions>>
    /\ IF req[r].pk \notin SponsorGroup \/ ~profiles[req[r].pk].exists
       THEN /\ req' = [req EXCEPT ![r] = Respond(req[r], 400, "ValidationError")]
            /\ UNCHANGED sponsorships
       ELSE /\ sponsorships' = Append(sponsorships,
                   [sponsor |-> req[r].pk, student |-> req[r].student,
                    course |-> req[r].course, amount |-> req[r].value])
            /\ req' = [req EXCEPT ![r].pc = "deduct"]

\* sponsorship_deduct without its funds test.
sponsorship_deduct_unchecked(r) ==
    LET new == req[r].total_funds - req[r].value
    IN  /\ req[r].pc = "deduct"
        /\ req[r].op = "create_sponsorship"
        /\ UNCHANGED <<ledger, sponsorships, enrollments, overlap,
                    transactions, assessments, submissions>>
        /\ profiles' = [profiles EXCEPT
               ![req[r].pk] = [exists |-> TRUE, total_funds |-> Quantize(new)]]
        /\ req' = [req EXCEPT ![r].pc = "record", ![r].total_funds = new]

\* The funds test of perform_create, made after the row is inserted, then
\* sponsor_profile.total_funds -= sponsorship.amount; sponsor_profile.save()
sponsorship_deduct(r) ==
    LET new == req[r].total_funds - req[r].value
    IN  /\ req[r].pc = "deduct"
        /\ req[r].op = "create_sponsorship"
        /\ UNCHANGED <<ledger, sponsorships, enrollments, overlap,
                    transactions, assessments, submissions>>
        /\ IF req[r].total_funds < req[r].value
           THEN /\ req' = [req EXCEPT ![r] =
                       Respond(req[r], 400, "InsufficientFunds")]
                /\ UNCHANGED profiles
           ELSE /\ profiles' = [profiles EXCEPT
                       ![req[r].pk] = [exists |-> TRUE, total_funds |-> Quantize(new)]]
                /\ req' = [req EXCEPT ![r].pc = "record", ![r].total_funds = new]

\* SponsorTransaction.objects.create(... "DEDUCT" ...) of perform_create.
sponsorship_record(r) ==
    /\ req[r].pc = "record"
    /\ req[r].op = "create_sponsorship"
    /\ ledger' = Append(ledger,
           [sponsor |-> req[r].pk, transaction_type |-> "DEDUCT",
            amount |-> Quantize(req[r].value),
            balance_after |-> Quantize(req[r].total_funds),
            description |-> [text |-> "Sponsorship for", student |-> req[r].student]])
    /\ req' = [req EXCEPT ![r] = Respond(req[r], 201, "none")]
    /\ UNCHANGED <<profiles, sponsorships, enrollments, overlap,
                    transactions, assessments, submissions>>

\* ----------------------------------------------------------------- profiles
\* create_profile without the one-to-one constraint on sponsor: the insert
\* replaces the row the sponsor already has.
create_profile_unconstrained(r, user, funds) ==
    LET rq == Request("create_profile", user, "none")
    IN  /\ req[r].pc = "idle"
        /\ UNCHANGED <<ledger, sponsorships, enrollments, overlap,
                    transactions, assessments, submissions>>
        /\ IF funds # Absent /\ ~ValidMoneyField(funds)
           THEN /\ req' = [req EXCEPT ![r] = Respond(rq, 400, "InvalidAmount")]
                /\ UNCHANGED profiles
           ELSE IF user \notin SponsorGroup
           THEN /\ req' = [req EXCEPT ![r] = Respond(rq, 403, "PermissionDenied")]
                /\ UNCHANGED profiles
           ELSE /\ profiles' = [profiles EXCEPT ![user] =
                       [exists |-> TRUE,
                        total_funds |-> IF funds = Absent THEN 0 ELSE funds.v]]
                /\ req' = [req EXCEPT ![r] = Respond(rq, 201, "none")]

\* POST sponsor-profiles/: SponsorProfileSerializer validates total_funds as
\* a writable field, perform_create admits the Sponsor group only, and the
\* one-to-one constraint on sponsor refuses a second row.
create_profile(r, user, funds) ==
    LET rq == Request("create_profile", user, "none")
    IN  /\ req[r].pc = "idle"
        /\ UNCHANGED <<ledger, sponsorships, enrollments, overlap,
                    transactions, assessments, submissions>>
        /\ IF funds # Absent /\ ~ValidMoneyField(funds)
           THEN /\ req' = [req EXCEPT ![r] = Respond(rq, 400, "InvalidAmount")]
                /\ UNCHANGED profiles
           ELSE IF user \notin SponsorGroup
           THEN /\ req' = [req EXCEPT ![r] = Respond(rq, 403, "PermissionDenied")]
                /\ UNCHANGED profiles
           ELSE IF profiles[user].exists
           THEN /\ req' = [req EXCEPT ![r] = Respond(rq, 500, "IntegrityError")]
                /\ UNCHANGED profiles
           ELSE /\ profiles' = [profiles EXCEPT ![user] =
                       [exists |-> TRUE,
                        total_funds |-> IF funds = Absent THEN 0 ELSE funds.v]]
                /\ req' = [req EXCEPT ![r] = Respond(rq, 201, "none")]

\* PATCH sponsor-profiles/{pk}/ with a total_funds field: the inherited
\* update of the ModelViewSet through SponsorProfileSerializer.
update_profile(r, user, pk, funds) ==
    LET rq == Request("update_profile", pk, "none")
    IN  /\ req[r].pc = "idle"
        /\ UNCHANGED <<ledger, sponsorships, enrollments, overlap,
                    transactions, assessments, submissions>>
        /\ IF pk \notin get_queryset(user)
           THEN /\ req' = [req EXCEPT ![r] = Respond(rq, 404, "NotFound")]
                /\ UNCHANGED profiles
           ELSE IF ~ValidMoneyField(funds)
           THEN /\ req' = [req EXCEPT ![r] = Respond(rq, 400, "InvalidAmount")]
                /\ UNCHANGED profiles
           ELSE /\ profiles' = [profiles EXCEPT ![pk].total_funds = funds.v]
                /\ req' = [req EXCEPT ![r] = Respond(rq, 200, "none")]

\* ------------------------------------------- inherited and admin operations
Remove(seq, i) == SubSeq(seq, 1, i - 1) \o SubSeq(seq, i + 1, Len(seq))

\* SponsorshipViewSet.get_queryset: the Sponsorship rows a caller may
\* address.
SponsorshipViewSet_get_queryset(user) ==
    IF user \in AdminGroup
    THEN DOMAIN sponsorships
    ELSE IF user \in SponsorGroup
    THEN {i \in DOMAIN sponsorships : sponsorships[i].sponsor = user}
    ELSE {}

\* PUT/PATCH on a Sponsorship: SponsorshipViewSet is a ModelViewSet and
\* overrides neither update nor perform_update, so the serializer's fields
\* are written to the row and no balance or ledger entry is touched.
SponsorshipViewSet_update(r, user, i, amount) ==
    LET rq == Request("update_sponsorship", user, "none")
    IN  /\ req[r].pc = "idle"
        /\ UNCHANGED <<profiles, ledger, enrollments, overlap,
                    transactions, assessments, submissions>>
        /\ IF i \notin SponsorshipViewSet_get_queryset(user)
           THEN /\ req' = [req EXCEPT ![r] = Respond(rq, 404, "NotFound")]
                /\ UNCHANGED sponsorships
           ELSE IF ~ValidMoneyField(amount)
           THEN /\ req' = [req EXCEPT ![r] = Respond(rq, 400, "InvalidAmount")]
                /\ UNCHANGED sponsorships
           ELSE /\ sponsorships' = [sponsorships EXCEPT ![i].amount = amount.v]
                /\ req' = [req EXCEPT ![r] = Respond(rq, 200, "none")]

\* DELETE on a Sponsorship: the inherited destroy of the ModelViewSet.
SponsorshipViewSet_destroy(r, user, i) ==
    LET rq == Request("destroy_sponsorship", user, "none")
    IN  /\ req[r].pc = "idle"
        /\ UNCHANGED <<profiles, ledger, enrollments, overlap,
                    transactions, assessments, submissions>>
        /\ IF i \notin SponsorshipViewSet_get_queryset(user)
           THEN /\ req' = [req EXCEPT ![r] = Respond(rq, 404, "NotFound")]
                /\ UNCHANGED sponsorships
           ELSE /\ sponsorships' = Remove(sponsorships, i)
                /\ req' = [req EXCEPT ![r] = Respond(rq, 204, "none")]

\* The change form of SponsorTransactionAdmin: the ModelAdmin is registered
\* with its default permissions and no read-only field, so a staff user
\* may rewrite an entry.
SponsorTransactionAdmin_change(r, user, i, amount) ==
    LET rq == Request("admin_change", user, "none")
    IN  /\ req[r].pc = "idle"
        /\ UNCHANGED <<profiles, sponsorships, enrollments, overlap,
                    transactions, assessments, submissions>>
        /\ IF user \notin AdminGroup
           THEN /\ req' = [req EXCEPT ![r] = Respond(rq, 403, "PermissionDenied")]
                /\ UNCHANGED ledger
           ELSE IF i \notin DOMAIN ledger
           THEN /\ req' = [req EXCEPT ![r] = Respond(rq, 404, "NotFound")]
                /\ UNCHANGED ledger
           ELSE IF ~ValidMoneyField(amount)
           THEN /\ req' = [req EXCEPT ![r] = Respond(rq, 400, "InvalidAmount")]
                /\ UNCHANGED ledger
           ELSE /\ ledger' = [ledger EXCEPT ![i].amount = amount.v]
                /\ req' = [req EXCEPT ![r] = Respond(rq, 200, "none")]

\* The delete view of SponsorTransactionAdmin.
SponsorTransactionAdmin_delete(r, user, i) ==
    LET rq == Request("admin_delete", user, "none")
    IN  /\ req[r].pc = "idle"
        /\ UNCHANGED <<profiles, sponsorships, enrollments, overlap,
                    transactions, assessments, submissions>>
        /\ IF user \notin AdminGroup
           THEN /\ req' = [req EXCEPT ![r] = Respond(rq, 403, "PermissionDenied")]
                /\ UNCHANGED ledger
           ELSE IF i \notin DOMAIN ledger
           THEN /\ req' = [req EXCEPT ![r] = Respond(rq, 404, "NotFound")]
                /\ UNCHANGED ledger
           ELSE /\ ledger' = Remove(ledger, i)
                /\ req' = [req EXCEPT ![r] = Respond(rq, 200, "none")]

\* ---------------------------------------------------------------- listings
\* The rows of a queryset on SponsorTransaction, in the order of
\* Meta.ordering = ['-timestamp']: timestamp is auto_now_add, so the row
\* appended last comes first.
Reverse(seq) == [i \in 1..Len(seq) |-> seq[Len(seq) + 1 - i]]
IsSponsor(k, row) == row.sponsor = k
NewestFirst(log, k) == Reverse(SelectSeq(log, LAMBDA row : IsSponsor(k, row)))

\* view_transactions without the filter on sponsor.
view_transactions_unfiltered(r, user, pk) ==
    LET rq == Request("view_transactions", pk, "none")
    IN  /\ req[r].pc = "idle"
        /\ DbUnchanged
        /\ UNCHANGED overlap
        /\ IF pk \notin get_queryset(user)
           THEN req' = [req EXCEPT ![r] = Respond(rq, 404, "NotFound")]
           ELSE req' = [req EXCEPT ![r] =
                    Respond([rq EXCEPT !.listing = Reverse(ledger)], 200, "none")]

\* SponsorProfileViewSet.view_transactions: get_object, then the rows of
\* SponsorTransaction.objects.filter(sponsor=sponsor_profile.sponsor).
view_transactions(r, user, pk) ==
    LET rq == Request("view_transactions", pk, "none")
    IN  /\ req[r].pc = "idle"
        /\ DbUnchanged
        /\ UNCHANGED overlap
        /\ IF pk \notin get_queryset(user)
           THEN req' = [req EXCEPT ![r] = Respond(rq, 404, "NotFound")]
           ELSE req' = [req EXCEPT ![r] =
                    Respond([rq EXCEPT !.listing = NewestFirst(ledger, pk)],
                            200, "none")]

\* -------------------------------------------------------------- enrollments
\* The test of perform_create and of simulate_payment: is_paid or price > 0.
PaidCourses ==
    {c \in Courses : CourseRows[c].is_paid \/ CourseRows[c].price > 0}

\* Enrollment.progress is a DecimalField(max_digits=5, decimal_places=2):
\* the serializer takes a number of at most two decimal places and three
\* integer digits; it sets no minimum and no maximum.
ValidProgressField(x) ==
    /\ x.t = "num"
    /\ x.v % Cent = 0
    /\ x.v > 0 - 100000 * Cent
    /\ x.v < 100000 * Cent

Enrolled(student, course) ==
    \E i \in DOMAIN enrollments :
        enrollments[i].student = student /\ enrollments[i].course = course

\* Sponsorship.objects.filter(student=user, course=course).exists()
has_sponsorship(student, course) ==
    \E i \in DOMAIN sponsorships :
        sponsorships[i].student = student /\ sponsorships[i].course = course

\* course.course_transactions.filter(user=user, status="Completed").exists()
has_payment(student, course) ==
    \E i \in DOMAIN transactions :
        /\ transactions[i].user = student
        /\ transactions[i].course = course
        /\ transactions[i].status = "Completed"

Enrolling(q) ==
    req[q].op \in {"enroll", "simulate_payment"} /\ InFlight(q)

\* The cut-off of the Enrollment table, counting the rows that requests
\* in flight may still insert.
RoomInEnrollments ==
    Len(enrollments) + Cardinality({q \in Requests : Enrolling(q)})
        < MaxEnrollments

\* perform_create taking the student from the payload when it names one.
perform_create_payload_student(r, user, student, course, progress) ==
    LET rq == [Request("enroll", user,
                       IF student = "none" THEN user ELSE student)
                 EXCEPT !.course = course, !.payload = student]
    IN  /\ req[r].pc = "idle"
        /\ DbUnchanged
        /\ IF progress # Absent /\ ~ValidProgressField(progress)
           THEN /\ req' = [req EXCEPT ![r] = Respond(rq, 400, "InvalidProgress")]
                /\ UNCHANGED overlap
           ELSE IF user \notin StudentGroup
           THEN /\ req' = [req EXCEPT ![r] = Respond(rq, 403, "PermissionDenied")]
                /\ UNCHANGED overlap
           ELSE IF Enrolled(user, course)
           THEN /\ req' = [req EXCEPT ![r] = Respond(rq, 400, "AlreadyEnrolled")]
                /\ UNCHANGED overlap
           ELSE IF /\ course \in PaidCourses
                   /\ ~(has_sponsorship(user, course) \/ has_payment(user, course))
           THEN /\ req' = [req EXCEPT ![r] = Respond(rq, 403, "PaymentRequired")]
                /\ UNCHANGED overlap
           ELSE /\ RoomInEnrollments
                /\ req' = [req EXCEPT ![r] =
                       [rq EXCEPT !.pc = "create",
                                  !.value = IF progress = Absent THEN 0
                                            ELSE progress.v]]
                /\ Started(r)

\* POST enrollments/: EnrollmentSerializer validates the payload (student
\* is read-only, so the payload's student is dropped), then
\* EnrollmentViewSet.perform_create admits students, refuses a second
\* enrollment and a paid course with neither sponsorship nor payment, and
\* calls serializer.save(student=user).
EnrollmentViewSet_perform_create(r, user, student, course, progress) ==
    LET rq == [Request("enroll", user, user)
                 EXCEPT !.course = course, !.payload = student]
    IN  /\ req[r].pc = "idle"
        /\ DbUnchanged
        /\ IF progress # Absent /\ ~ValidProgressField(progress)
           THEN /\ req' = [req EXCEPT ![r] = Respond(rq, 400, "InvalidProgress")]
                /\ UNCHANGED overlap
           ELSE IF user \notin StudentGroup
           THEN /\ req' = [req EXCEPT ![r] = Respond(rq, 403, "PermissionDenied")]
                /\ UNCHANGED overlap
           ELSE IF Enrolled(user, course)
           THEN /\ req' = [req EXCEPT ![r] = Respond(rq, 400, "AlreadyEnrolled")]
                /\ UNCHANGED overlap
           ELSE IF /\ course \in PaidCourses
                   /\ ~(has_sponsorship(user, course) \/ has_payment(user, course))
           THEN /\ req' = [req EXCEPT ![r] = Respond(rq, 403, "PaymentRequired")]
                /\ UNCHANGED overlap
           ELSE /\ RoomInEnrollments
                /\ req' = [req EXCEPT ![r] =
                       [rq EXCEPT !.pc = "create",
                                  !.value = IF progress = Absent THEN 0
                                            ELSE progress.v]]
                /\ Started(r)

\* EnrollmentSerializer.create up to its insert: the second test for an
\* enrollment of request.user in the course.
EnrollmentSerializer_create(r) ==
    /\ req[r].pc = "create"
    /\ req[r].op = "enroll"
    /\ DbUnchanged
    /\ UNCHANGED overlap
    /\ IF Enrolled(req[r].pk, req[r].course)
       THEN req' = [req EXCEPT ![r] = Respond(req[r], 400, "AlreadyEnrolled")]
       ELSE req' = [req EXCEPT ![r].pc = "insert"]

\* Enrollment_insert without unique_together.
Enrollment_insert_unconstrained(r) ==
    /\ req[r].pc = "insert"
    /\ req[r].op \in {"enroll", "simulate_payment"}
    /\ UNCHANGED <<profiles, ledger, sponsorships, transactions, assessments,
                   submissions, overlap>>
    /\ enrollments' = Append(enrollments,
           [student |-> req[r].student, course |-> req[r].course,
            progress |-> req[r].value])
    /\ req' = [req EXCEPT ![r] = Respond(req[r], 201, "none")]

\* Enrollment.objects.create(...): the INSERT, which unique_together
\* (student, course) refuses for a pair that is already there.
Enrollment_insert(r) ==
    /\ req[r].pc = "insert"
    /\ req[r].op \in {"enroll", "simulate_payment"}
    /\ UNCHANGED <<profiles, ledger, sponsorships, transactions, assessments,
                   submissions, overlap>>
    /\ IF Enrolled(req[r].student, req[r].course)
       THEN /\ req' = [req EXCEPT ![r] = Respond(req[r], 500, "IntegrityError")]
            /\ UNCHANGED enrollments
       ELSE /\ enrollments' = Append(enrollments,
                   [student |-> req[r].student, course |-> req[r].course,
                    progress |-> req[r].value])
            /\ req' = [req EXCEPT ![r] = Respond(req[r], 201, "none")]

\* EnrollmentViewSet.simulate_payment_api up to its first write: the
\* course lookup, the test for an enrollment, and the test for a free
\* course (not is_paid or price == 0).  The caller's group is not looked at.
simulate_payment_api(r, user, course) ==
    LET rq == [Request("simulate_payment", user, user) EXCEPT !.course = course]
    IN  /\ req[r].pc = "idle"
        /\ DbUnchanged
        /\ IF course = NoCourse
           THEN /\ req' = [req EXCEPT ![r] = Respond(rq, 400, "CourseRequired")]
                /\ UNCHANGED overlap
           ELSE IF course \notin Courses
           THEN /\ req' = [req EXCEPT ![r] = Respond(rq, 404, "NotFound")]
                /\ UNCHANGED overlap
           ELSE IF Enrolled(user, course)
           THEN /\ req' = [req EXCEPT ![r] = Respond(rq, 200, "none")]
                /\ UNCHANGED overlap
           ELSE /\ RoomInEnrollments
                /\ req' = [req EXCEPT ![r] =
                       [rq EXCEPT !.pc =
                           IF ~CourseRows[course].is_paid
                                \/ CourseRows[course].price = 0
                           THEN "insert" ELSE "pay"]]
                /\ Started(r)

\* utils.simulate_payment: a Completed Transaction for a paid course; its
\* transaction_id DEV-<student>-<course> is unique.
simulate_payment(r) ==
    LET student == req[r].student
        course == req[r].course
    IN  /\ req[r].pc = "pay"
        /\ req[r].op = "simulate_payment"
        /\ UNCHANGED <<profiles, ledger, sponsorships, enrollments, assessments,
                       submissions, overlap>>
        /\ IF course \notin PaidCourses
           THEN /\ req' = [req EXCEPT ![r] = Respond(req[r], 400, "PaymentFailed")]
                /\ UNCHANGED transactions
           ELSE IF \E i \in DOMAIN transactions :
                      /\ transactions[i].user = student
                      /\ transactions[i].course = course
           THEN /\ req' = [req EXCEPT ![r] =
                       Respond(req[r], 500, "DuplicateTransaction")]
                /\ UNCHANGED transactions
           ELSE /\ transactions' = Append(transactions,
                       [user |-> student, course |-> course,
                        amount |-> CourseRows[course].price,
                        status |-> "Completed"])
                /\ req' = [req EXCEPT ![r].pc = "insert"]

\* EnrollmentViewSet.get_queryset: the Enrollment rows a caller may address.
EnrollmentViewSet_get_queryset(user) ==
    IF user \in AdminGroup
    THEN DOMAIN enrollments
    ELSE IF user \in InstructorGroup
    THEN {i \in DOMAIN enrollments :
             CourseRows[enrollments[i].course].instructor = user}
    ELSE IF user \in StudentGroup
    THEN {i \in DOMAIN enrollments : enrollments[i].student = user}
    ELSE {}

\* float(progress): a number for a number, nan for "NaN", an error for
\* None and for text.
FloatOf(x) == DecimalOf(x)

\* EnrollmentViewSet.update_progress: get_object, the object permission
\* IsStudentOrAdmin, float(progress), the range test and save().
update_progress(r, user, i, progress) ==
    LET rq == Request("update_progress", user, "none")
    IN  /\ req[r].pc = "idle"
        /\ UNCHANGED <<profiles, ledger, sponsorships, transactions, assessments,
                       submissions, overlap>>
        /\ IF i \notin EnrollmentViewSet_get_queryset(user)
           THEN /\ req' = [req EXCEPT ![r] = Respond(rq, 404, "NotFound")]
                /\ UNCHANGED enrollments
           ELSE IF enrollments[i].student # user /\ user \notin AdminGroup
           THEN /\ req' = [req EXCEPT ![r] = Respond(rq, 403, "PermissionDenied")]
                /\ UNCHANGED enrollments
           ELSE IF FloatOf(progress) = "invalid"
           THEN /\ req' = [req EXCEPT ![r] = Respond(rq, 400, "InvalidProgress")]
                /\ UNCHANGED enrollments
           ELSE IF FloatOf(progress) = "nan"
                   \/ progress.v < 0 \/ progress.v > 10000 * Cent
           THEN /\ req' = [req EXCEPT ![r] = Respond(rq, 400, "OutOfRange")]
                /\ UNCHANGED enrollments
           ELSE /\ enrollments' =
                       [enrollments EXCEPT ![i].progress = Quantize(progress.v)]
                /\ req' = [req EXCEPT ![r] = Respond(rq, 200, "none")]

\* PUT/PATCH on an Enrollment: the inherited update of the ModelViewSet
\* through EnrollmentSerializer, in which progress is writable.
EnrollmentViewSet_update(r, user, i, progress) ==
    LET rq == Request("update_enrollment", user, "none")
    IN  /\ req[r].pc = "idle"
        /\ UNCHANGED <<profiles, ledger, sponsorships, transactions, assessments,
                       submissions, overlap>>
        /\ IF i \notin EnrollmentViewSet_get_queryset(user)
           THEN /\ req' = [req EXCEPT ![r] = Respond(rq, 404, "NotFound")]
                /\ UNCHANGED enrollments
           ELSE IF progress = Absent
           THEN /\ req' = [req EXCEPT ![r] = Respond(rq, 200, "none")]
                /\ UNCHANGED enrollments
           ELSE IF ~ValidProgressField(progress)
           THEN /\ req' = [req EXCEPT ![r] = Respond(rq, 400, "InvalidProgress")]
                /\ UNCHANGED enrollments
           ELSE /\ enrollments' = [enrollments EXCEPT ![i].progress = progress.v]
                /\ req' = [req EXCEPT ![r] = Respond(rq, 200, "none")]

\* ------------------------------------------------- assessments, submissions
\* Submission.grade is null until the submission is graded.
NoGrade == [set |-> FALSE, v |-> 0]

\* POST assessments/: AssessmentViewSet.perform_create.  For a caller who
\* is not the course's instructor it returns a Response and saves nothing;
\* CreateModelMixin.create drops what perform_create returns and answers
\* 201 with serializer.data in both cases.
AssessmentViewSet_perform_create(r, user, course) ==
    LET rq == [Request("create_assessment", user, "none") EXCEPT !.course = course]
    IN  /\ req[r].pc = "idle"
        /\ Len(assessments) < MaxAssessments
        /\ UNCHANGED <<profiles, ledger, sponsorships, enrollments, transactions,
                       submissions, overlap>>
        /\ req' = [req EXCEPT ![r] = [Respond(rq, 201, "none") EXCEPT !.course = course]]
        /\ IF CourseRows[course].instructor # user
           THEN UNCHANGED assessments
           ELSE assessments' = Append(assessments, [course |-> course])

\* POST submissions/: SubmissionSerializer.create.  grade and student are
\* read-only: the row is the caller's and has no grade, whatever the payload
\* carried.
SubmissionSerializer_create(r, user, a, grade) ==
    LET rq == Request("create_submission", user, user)
    IN  /\ req[r].pc = "idle"
        /\ Len(submissions) < MaxSubmissions
        /\ UNCHANGED <<profiles, ledger, sponsorships, enrollments, transactions,
                       assessments, overlap>>
        /\ IF a \notin DOMAIN assessments
           THEN /\ req' = [req EXCEPT ![r] = Respond(rq, 400, "InvalidAssessment")]
                /\ UNCHANGED submissions
           ELSE /\ submissions' = Append(submissions,
                       [assessment |-> a, student |-> user, grade |-> NoGrade])
                /\ req' = [req EXCEPT ![r] = Respond(rq, 201, "none")]

\* SubmissionViewSet.get_queryset: the Submission rows a caller may address.
SubmissionViewSet_get_queryset(user) ==
    IF user \in AdminGroup
    THEN DOMAIN submissions
    ELSE IF user \in InstructorGroup
    THEN {i \in DOMAIN submissions :
             CourseRows[assessments[submissions[i].assessment].course].instructor
                 = user}
    ELSE IF user \in StudentGroup
    THEN {i \in DOMAIN submissions : submissions[i].student = user}
    ELSE {}

\* PUT/PATCH on a Submission: the inherited update of the ModelViewSet
\* through SubmissionSerializer, which drops the read-only grade.
SubmissionViewSet_update(r, user, i, grade) ==
    LET rq == Request("update_submission", user, "none")
    IN  /\ req[r].pc = "idle"
        /\ DbUnchanged
        /\ UNCHANGED overlap
        /\ IF i \notin SubmissionViewSet_get_queryset(user)
           THEN req' = [req EXCEPT ![r] = Respond(rq, 404, "NotFound")]
           ELSE req' = [req EXCEPT ![r] = Respond(rq, 200, "none")]

\* has_object_permission that lets every authenticated caller through.
IsInstructorOrAdmin_everyone(user, i) == TRUE

\* IsInstructorOrAdmin.has_object_permission for Submission row i.
IsInstructorOrAdmin(user, i) ==
    \/ user \in AdminGroup
    \/ /\ user \in InstructorGroup
       /\ CourseRows[assessments[submissions[i].assessment].course].instructor
              = user

\* PATCH submissions/{id}/grade_submission/: get_object with the object
\* permission, float(grade), the range test, then submission.save(), which
\* stores the grade with two decimal places.
grade_submission(r, user, i, grade) ==
    LET rq == Request("grade_submission", user, "none")
    IN  /\ req[r].pc = "idle"
        /\ UNCHANGED <<profiles, ledger, sponsorships, enrollments, transactions,
                       assessments, overlap>>
        /\ IF i \notin SubmissionViewSet_get_queryset(user)
           THEN /\ req' = [req EXCEPT ![r] = Respond(rq, 404, "NotFound")]
                /\ UNCHANGED submissions
           ELSE IF ~IsInstructorOrAdmin(user, i)
           THEN /\ req' = [req EXCEPT ![r] = Respond(rq, 403, "PermissionDenied")]
                /\ UNCHANGED submissions
           ELSE IF FloatOf(grade) = "invalid"
           THEN /\ req' = [req EXCEPT ![r] = Respond(rq, 400, "InvalidGrade")]
                /\ UNCHANGED submissions
           ELSE IF FloatOf(grade) = "nan"
                   \/ grade.v < 0 \/ grade.v > 10000 * Cent
           THEN /\ req' = [req EXCEPT ![r] = Respond(rq, 400, "OutOfRange")]
                /\ UNCHANGED submissions
           ELSE /\ submissions' = [submissions EXCEPT ![i].grade =
                       [set |-> TRUE, v |-> Quantize(grade.v)]]
                /\ req' = [req EXCEPT ![r] = Respond(rq, 200, "none")]

\* ---------------------------------------------------------------- dashboard
\* The rows of sponsor_profile.sponsorships.
SponsorshipsOf(k) == SelectSeq(sponsorships, LAMBDA row : IsSponsor(k, row))

\* aggregate(total=Sum("amount"))["total"] or 0 over the sponsor's
\* SponsorTransaction rows of one type.
RECURSIVE SumOfType(_, _, _)
SumOfType(log, k, type) ==
    IF log = <<>> THEN 0
    ELSE (IF Head(log).sponsor = k /\ Head(log).transaction_type = type
          THEN Head(log).amount ELSE 0)
         + SumOfType(Tail(log), k, type)

\* The inner loop of dashboard, for one sponsorship s: the enrollments of
\* s.student, of s.course only if the sponsorship names a course; each adds
\* its progress to the total and one to the count.
RECURSIVE EnrollmentLoop(_, _, _)
EnrollmentLoop(s, rows, acc) ==
    IF rows = <<>> THEN acc
    ELSE LET e == Head(rows)
             hit == /\ e.student = s.student
                    /\ (s.course # NoCourse => e.course = s.course)
         IN  EnrollmentLoop(s, Tail(rows),
                 IF hit THEN [total |-> acc.total + e.progress,
                              count |-> acc.count + 1]
                 ELSE acc)

\* The outer loop of dashboard over the sponsor's sponsorships.
RECURSIVE SponsorshipLoop(_, _)
SponsorshipLoop(rows, acc) ==
    IF rows = <<>> THEN acc
    ELSE SponsorshipLoop(Tail(rows), EnrollmentLoop(Head(rows), enrollments, acc))

\* total_progress / student_count: the quotient of two Decimals, rounded
\* half-even at the precision of the context; the precision here is the
\* thousandth.
Divide(total, count) ==
    LET q == total \div count
        m == total % count
    IN  IF 2 * m < count THEN q
        ELSE IF 2 * m > count THEN q + 1
        ELSE IF q % 2 = 0 THEN q ELSE q + 1

\* dashboard averaging over the sponsor's first sponsorship only.
dashboard_first_sponsorship(r, user) ==
    LET rq == Request("dashboard", user, "none")
        mine == SponsorshipsOf(user)
        loop == SponsorshipLoop(IF mine = <<>> THEN mine ELSE <<Head(mine)>>,
                                [total |-> 0, count |-> 0])
    IN  /\ req[r].pc = "idle"
        /\ DbUnchanged
        /\ UNCHANGED overlap
        /\ IF user \notin SponsorGroup
           THEN req' = [req EXCEPT ![r] = Respond(rq, 403, "AccessDenied")]
           ELSE IF ~profiles[user].exists
           THEN req' = [req EXCEPT ![r] = Respond(rq, 404, "NotFound")]
           ELSE req' = [req EXCEPT ![r] =
                    Respond([rq EXCEPT
                        !.total_funds = profiles[user].total_funds,
                        !.deducted = SumOfType(ledger, user, "DEDUCT"),
                        !.students =
                            Cardinality({mine[i].student : i \in DOMAIN mine}),
                        !.average = IF loop.count > 0
                                    THEN Divide(loop.total, loop.count) ELSE 0],
                        200, "none")]

\* SponsorDashboardViewSet.dashboard.
dashboard(r, user) ==
    LET rq == Request("dashboard", user, "none")
        mine == SponsorshipsOf(user)
        loop == SponsorshipLoop(mine, [total |-> 0, count |-> 0])
    IN  /\ req[r].pc = "idle"
        /\ DbUnchanged
        /\ UNCHANGED overlap
        /\ IF user \notin SponsorGroup
           THEN req' = [req EXCEPT ![r] = Respond(rq, 403, "AccessDenied")]
           ELSE IF ~profiles[user].exists
           THEN req' = [req EXCEPT ![r] = Respond(rq, 404, "NotFound")]
           ELSE req' = [req EXCEPT ![r] =
                    Respond([rq EXCEPT
                        !.total_funds = profiles[user].total_funds,
                        !.deducted = SumOfType(ledger, user, "DEDUCT"),
                        !.students =
                            Cardinality({mine[i].student : i \in DOMAIN mine}),
                        !.average = IF loop.count > 0
                                    THEN Divide(loop.total, loop.count) ELSE 0],
                        200, "none")]

\* The response is delivered; the worker is free again.
Finish(r) ==
    /\ req[r].pc = "done"
    /\ req' = [req EXCEPT ![r] = Idle]
    /\ overlap' = [q \in Requests |-> IF q = r THEN {} ELSE overlap[q] \ {r}]
    /\ DbUnchanged

\* ------------------------------------------------------------------ inputs
\* Spec: two workers serve one sponsor's fund requests concurrently, with
\* amounts of whole cents.
Callers == {"s1"}
Students == {"st"}
AmountInputs == {Num(Cent), Num(2 * Cent)}
SponsorshipAmounts == {Num(Cent)}

Next ==
    \E r \in Requests :
        \/ \E u \in Callers, k \in Callers, a \in AmountInputs :
               add_funds(r, u, k, a, Absent)
        \/ add_funds_save(r)
        \/ add_funds_record(r)
        \/ \E u \in Callers, k \in Callers, a \in AmountInputs :
               deduct_funds(r, u, k, a)
        \/ deduct_funds_save(r)
        \/ deduct_funds_record(r)
        \/ \E u \in Callers, s \in Students, a \in SponsorshipAmounts :
               create_sponsorship(r, u, s, NoCourse, a)
        \/ SponsorshipSerializer_create(r)
        \/ sponsorship_deduct(r)
        \/ sponsorship_record(r)
        \/ \E u \in Callers : create_profile(r, u, Absent)
        \/ Finish(r)

Spec == Init /\ [][Next]_vars

\* SerialSpec: one worker serves one request at a time, from any caller,
\* to any profile, with any payload.
SerialWorker == {"r1"}
AnyAmount == {Absent, Text, NaN, Num(0), Num(0 - Cent), Num(4), Num(Cent)}
AnyDeduct == AnyAmount \cup {Num(2 * Cent)}
AnyAlias == {Absent, Num(Cent)}
AnyFunds == {Absent, Text, Num(0 - Cent), Num(Cent)}
AnySponsorship == {Text, Num(0), Num(0 - Cent), Num(4), Num(Cent)}

SerialCallers == {"s1", "ad", "st"}

SerialRoom == Len(ledger) < MaxSerialLedger

SerialNext ==
    \E r \in SerialWorker :
        \/ /\ SerialRoom
           /\ \E u \in SerialCallers, k \in SponsorGroup, a \in AnyAmount, t \in AnyAlias :
                  add_funds(r, u, k, a, t)
        \/ add_funds_save(r)
        \/ add_funds_record(r)
        \/ /\ SerialRoom
           /\ \E u \in SerialCallers, k \in SponsorGroup, a \in AnyDeduct :
                  deduct_funds(r, u, k, a)
        \/ deduct_funds_save(r)
        \/ deduct_funds_record(r)
        \/ /\ SerialRoom
           /\ \E u \in SerialCallers, s \in Students, a \in AnySponsorship :
                  create_sponsorship(r, u, s, NoCourse, a)
        \/ SponsorshipSerializer_create(r)
        \/ sponsorship_deduct(r)
        \/ sponsorship_record(r)
        \/ \E u \in SerialCallers, f \in AnyFunds : create_profile(r, u, f)
        \/ \E u \in SerialCallers, k \in SponsorGroup, f \in AnyFunds :
               update_profile(r, u, k, f)
        \/ Finish(r)

SerialSpec == Init /\ [][SerialNext]_vars

\* ListSpec: one worker serves the fund requests and transaction listings
\* of two sponsors and an admin.
ListCallers == {"s1", "s2", "ad"}
ListAmounts == {Num(Cent), Num(2 * Cent)}

ListNext ==
    \E r \in SerialWorker :
        \/ \E u \in ListCallers, k \in SponsorGroup, a \in ListAmounts :
               add_funds(r, u, k, a, Absent)
        \/ add_funds_save(r)
        \/ add_funds_record(r)
        \/ \E u \in ListCallers, k \in SponsorGroup, a \in ListAmounts :
               deduct_funds(r, u, k, a)
        \/ deduct_funds_save(r)
        \/ deduct_funds_record(r)
        \/ \E u \in ListCallers : create_profile(r, u, Absent)
        \/ \E u \in ListCallers, k \in SponsorGroup : view_transactions(r, u, k)
        \/ Finish(r)

ListSpec == Init /\ [][ListNext]_vars

\* AdminSpec: one worker serves a sponsor's fund and sponsorship requests,
\* the update and delete requests on Sponsorship rows, and a staff user's
\* work on the admin site.
AdminCallers == {"s1", "ad"}
RowIds == 1..2
AdminAmounts == {Num(Cent)}
AdminEdits == {Text, Num(2 * Cent)}
AdminRoom == \A k \in ProfileKeys : profiles[k].total_funds < MaxBalance

AdminNext ==
    \E r \in SerialWorker :
        \/ /\ AdminRoom
           /\ \E k \in SponsorGroup, a \in AdminAmounts : add_funds(r, k, k, a, Absent)
        \/ add_funds_save(r)
        \/ add_funds_record(r)
        \/ \E u \in AdminCallers, s \in Students, a \in AdminAmounts :
               create_sponsorship(r, u, s, NoCourse, a)
        \/ SponsorshipSerializer_create(r)
        \/ sponsorship_deduct(r)
        \/ sponsorship_record(r)
        \/ \E u \in AdminCallers : create_profile(r, u, Absent)
        \/ \E u \in AdminCallers, i \in RowIds, a \in AdminEdits :
               SponsorshipViewSet_update(r, u, i, a)
        \/ \E u \in AdminCallers, i \in RowIds : SponsorshipViewSet_destroy(r, u, i)
        \/ \E u \in AdminCallers, i \in RowIds, a \in AdminEdits :
               SponsorTransactionAdmin_change(r, u, i, a)
        \/ \E u \in AdminCallers, i \in RowIds : SponsorTransactionAdmin_delete(r, u, i)
        \/ Finish(r)

AdminSpec == Init /\ [][AdminNext]_vars

\* EnrollSpec: two workers serve the enrollment and payment requests of a
\* student and of an admin concurrently.
EnrollCallers == {"st", "ad"}
PayloadStudents == {"none", "st2"}
PayloadCourses == Courses \cup {NoCourse, "c9"}

EnrollNext ==
    \E r \in Requests :
        \/ \E u \in EnrollCallers, s \in PayloadStudents, c \in Courses :
               EnrollmentViewSet_perform_create(r, u, s, c, Absent)
        \/ EnrollmentSerializer_create(r)
        \/ Enrollment_insert(r)
        \/ \E u \in EnrollCallers, c \in PayloadCourses : simulate_payment_api(r, u, c)
        \/ simulate_payment(r)
        \/ Finish(r)

EnrollSpec == Init /\ [][EnrollNext]_vars

\* ProgressSpec: one worker serves the requests of two students, an
\* instructor and an admin that write an Enrollment's progress.
ProgressCallers == {"st", "st2", "in1", "ad"}
EnrollProgress == {Absent, Num(15000 * Cent)}
AnyProgress ==
    {Absent, Text, NaN, Num(0 - Cent), Num(5000 * Cent), Num(3333),
     Num(10000 * Cent), Num(10000 * Cent + 1)}

ProgressNext ==
    \E r \in SerialWorker :
        \/ \E u \in ProgressCallers, c \in Courses, p \in EnrollProgress :
               EnrollmentViewSet_perform_create(r, u, "none", c, p)
        \/ EnrollmentSerializer_create(r)
        \/ Enrollment_insert(r)
        \/ \E u \in ProgressCallers : simulate_payment_api(r, u, "c1")
        \/ \E u \in ProgressCallers, i \in RowIds, p \in AnyProgress :
               update_progress(r, u, i, p)
        \/ \E u \in ProgressCallers, i \in RowIds, p \in EnrollProgress :
               EnrollmentViewSet_update(r, u, i, p)
        \/ Finish(r)

ProgressSpec == Init /\ [][ProgressNext]_vars

\* GradeSpec: one worker serves the assessment and submission requests of
\* two instructors, an admin, two students and a sponsor.
GradeCallers == {"in1", "in2", "ad", "st", "s1"}
GradeCourses == {"c1", "c3"}
Submitters == {"st", "in2"}
PayloadGrades == {Absent, Num(5000 * Cent)}
AnyGrade ==
    {Absent, Text, NaN, Num(0 - Cent), Num(3333), Num(99999),
     Num(10000 * Cent + 1)}

GradeNext ==
    \E r \in SerialWorker :
        \/ \E u \in GradeCallers, c \in GradeCourses :
               AssessmentViewSet_perform_create(r, u, c)
        \/ \E u \in Submitters, a \in RowIds, g \in PayloadGrades :
               SubmissionSerializer_create(r, u, a, g)
        \/ \E u \in GradeCallers, i \in RowIds, g \in PayloadGrades :
               SubmissionViewSet_update(r, u, i, g)
        \/ \E u \in GradeCallers, i \in RowIds, g \in AnyGrade :
               grade_submission(r, u, i, g)
        \/ Finish(r)

GradeSpec == Init /\ [][GradeNext]_vars

\* DashSpec: one worker serves a sponsor who starts with 40.00 or 60.00,
\* sponsors students for 40.00 and 20.00 and reads the dashboard, and the
\* students' enrollments.
DashCallers == {"s1", "st", "st2"}
DashFunds == {Num(4000 * Cent), Num(6000 * Cent)}
DashAmounts == {Num(4000 * Cent), Num(2000 * Cent)}
DashCourses == {NoCourse, "c2"}
DashProgress == {Absent, Num(10000 * Cent)}
DashEnrollCourses == {"c1", "c2"}

DashNext ==
    \E r \in SerialWorker :
        \/ \E u \in DashCallers, f \in DashFunds : create_profile(r, u, f)
        \/ \E u \in DashCallers, s \in StudentGroup, c \in DashCourses,
                 a \in DashAmounts :
               create_sponsorship(r, u, s, c, a)
        \/ SponsorshipSerializer_create(r)
        \/ sponsorship_deduct(r)
        \/ sponsorship_record(r)
        \/ \E u \in DashCallers, c \in DashEnrollCourses, p \in DashProgress :
               EnrollmentViewSet_perform_create(r, u, "none", c, p)
        \/ EnrollmentSerializer_create(r)
        \/ Enrollment_insert(r)
        \/ \E u \in DashCallers : dashboard(r, u)
        \/ Finish(r)

DashSpec == Init /\ [][DashNext]_vars

\* ================================================================== claims
Quiescent == \A r \in Requests : ~InFlight(r)

RECURSIVE SumAmounts(_, _, _)
SumAmounts(log, k, type) ==
    IF log = <<>> THEN 0
    ELSE (IF Head(log).sponsor = k /\ Head(log).transaction_type = type
          THEN Head(log).amount ELSE 0)
         + SumAmounts(Tail(log), k, type)

Succeeded(r, ops) ==
    /\ req[r].pc = "done"
    /\ req[r].op \in ops
    /\ req[r].status \in {200, 201}

\* The balance a finished, successful fund request found when it read the
\* profile, and the change it meant to make.
Delta(r) == IF req[r].op = "add_funds" THEN req[r].value ELSE 0 - req[r].value
ReadBalance(r) == req[r].total_funds - Delta(r)

Max(a, b) == IF a >= b THEN a ELSE b

FundOps == {"add_funds", "deduct_funds", "create_sponsorship"}

\* C1: every SponsorProfile's balance (total_funds) is >= 0 in every
\* reachable state.
C1_BalanceNonNegative ==
    \A k \in ProfileKeys : profiles[k].exists => profiles[k].total_funds >= 0

\* C2: whenever no request is in flight, each sponsor's balance equals the
\* sum of its ADD entries minus the sum of its DEDUCT entries.
C2_LedgerReconciles ==
    Quiescent =>
        \A k \in ProfileKeys :
            profiles[k].exists =>
                profiles[k].total_funds
                    = SumAmounts(ledger, k, "ADD") - SumAmounts(ledger, k, "DEDUCT")

\* C3: two concurrent deduct-funds requests on one profile never both
\* succeed when their combined amount exceeds the balance available to
\* them (the larger of the balances the two found).
C3_NoDoubleSpend ==
    \A a, b \in Requests :
        ( /\ a # b
          /\ Succeeded(a, {"deduct_funds"})
          /\ Succeeded(b, {"deduct_funds"})
          /\ req[a].pk = req[b].pk
          /\ b \in overlap[a] )
        => req[a].value + req[b].value <= Max(ReadBalance(a), ReadBalance(b))

\* C4: when two concurrent fund-mutating requests on one profile have both
\* succeeded, the balance is the balance the earlier one found, changed by
\* both amounts.
C4_NoLostUpdate ==
    \A a, b \in Requests :
        ( /\ a # b
          /\ Succeeded(a, FundOps)
          /\ Succeeded(b, FundOps)
          /\ req[a].pk = req[b].pk
          /\ b \in overlap[a] )
        => profiles[req[a].pk].total_funds = ReadBalance(b) + Delta(a) + Delta(b)

\* The Sponsorship rows, and the sponsorship entries of the log, with the
\* given sponsor, student and amount.
SponsorshipRows(k, s, x) ==
    {i \in DOMAIN sponsorships :
        /\ sponsorships[i].sponsor = k
        /\ sponsorships[i].student = s
        /\ sponsorships[i].amount = x}
SponsorshipEntries(k, s, x) ==
    {i \in DOMAIN ledger :
        /\ ledger[i].description = [text |-> "Sponsorship for", student |-> s]
        /\ ledger[i].transaction_type = "DEDUCT"
        /\ ledger[i].sponsor = k
        /\ ledger[i].amount = x}
AmountsOnRecord ==
    {sponsorships[i].amount : i \in DOMAIN sponsorships}
        \cup {ledger[i].amount : i \in DOMAIN ledger}

\* C5: sponsorship creation is all-or-nothing: whenever no request is in
\* flight, every Sponsorship row has its DEDUCT entry and every sponsorship
\* DEDUCT entry has its Sponsorship row.
C5_SponsorshipAllOrNothing ==
    Quiescent =>
        \A k \in Users, s \in Users, x \in AmountsOnRecord :
            Cardinality(SponsorshipRows(k, s, x))
                = Cardinality(SponsorshipEntries(k, s, x))

\* A sponsorship request in flight whose amount is greater than the balance
\* it read.
ShortOfFunds(q) ==
    /\ q.op = "create_sponsorship"
    /\ q.pc \in {"insert", "deduct"}
    /\ q.value > q.total_funds

\* C6: a sponsorship-creation request whose amount is greater than the
\* balance it found ends with an insufficient-funds error, and none of its
\* steps changes the balance or the SponsorTransaction log.
C6_InsufficientSponsorship ==
    [][\A r \in Requests :
          /\ (req[r].pc = "idle" /\ ShortOfFunds(req'[r]))
                => (profiles' = profiles /\ ledger' = ledger)
          /\ (ShortOfFunds(req[r]) /\ req'[r] # req[r])
                => /\ profiles' = profiles
                   /\ ledger' = ledger
                   /\ req'[r].pc \in {"deduct", "done"}
                   /\ req[r].pc = "deduct"
                        => /\ req'[r].pc = "done"
                           /\ req'[r].status = 400
                           /\ req'[r].error = "InsufficientFunds"]_vars

C6_Witness ==
    \E r \in Requests :
        /\ req[r].pc = "done"
        /\ req[r].op = "create_sponsorship"
        /\ req[r].error = "InsufficientFunds"
        /\ req[r].value > req[r].total_funds
        /\ profiles[req[r].pk].total_funds = req[r].total_funds
        /\ overlap[r] # {}

\* C7: a deduct-funds request with a positive amount greater than the
\* profile's balance reports an insufficient-funds error (400) and leaves
\* the balance and the SponsorTransaction log unchanged.
C7_InsufficientDeduct ==
    [][\A r \in Requests :
          (req[r].pc = "idle" /\ req'[r].op = "deduct_funds")
          => \A u \in Users, a \in AnyDeduct :
                ( /\ req'[r].pk \in get_queryset(u)
                  /\ a.t = "num"
                  /\ a.v > 0
                  /\ a.v > profiles[req'[r].pk].total_funds
                  /\ deduct_funds(r, u, req'[r].pk, a) )
                => /\ req'[r].pc = "done"
                   /\ req'[r].status = 400
                   /\ req'[r].error = "InsufficientFunds"
                   /\ profiles' = profiles
                   /\ ledger' = ledger]_vars

C7_Witness ==
    \E r \in Requests :
        /\ req[r].pc = "done"
        /\ req[r].op = "deduct_funds"
        /\ req[r].status = 400
        /\ req[r].error = "InsufficientFunds"
        /\ req[r].value > profiles[req[r].pk].total_funds
        /\ profiles[req[r].pk].total_funds > 0
        /\ ledger # <<>>

\* An amount that is no number, zero or negative.
BadAmount(a) == a.t = "text" \/ (a.t = "num" /\ a.v <= 0)

\* C8: an add-funds or deduct-funds request whose amount is non-numeric,
\* zero or negative fails with an invalid-amount error (400) and leaves the
\* balance and the SponsorTransaction log unchanged.
C8_InvalidAmountRejected ==
    [][\A r \in Requests :
          /\ (req[r].pc = "idle" /\ req'[r].op = "add_funds")
             => \A u \in Users, a \in AnyAmount, t \in AnyAlias :
                   ( /\ req'[r].pk \in get_queryset(u)
                     /\ BadAmount(a)
                     /\ add_funds(r, u, req'[r].pk, a, t) )
                   => /\ req'[r].pc = "done"
                      /\ req'[r].status = 400
                      /\ req'[r].error = "InvalidAmount"
                      /\ profiles' = profiles
                      /\ ledger' = ledger
          /\ (req[r].pc = "idle" /\ req'[r].op = "deduct_funds")
             => \A u \in Users, a \in AnyDeduct :
                   ( /\ req'[r].pk \in get_queryset(u)
                     /\ BadAmount(a)
                     /\ deduct_funds(r, u, req'[r].pk, a) )
                   => /\ req'[r].pc = "done"
                      /\ req'[r].status = 400
                      /\ req'[r].error = "InvalidAmount"
                      /\ profiles' = profiles
                      /\ ledger' = ledger]_vars

\* The row a fund request appends to the log.
Entry(k, type, x, after, text, s) ==
    [sponsor |-> k, transaction_type |-> type, amount |-> x,
     balance_after |-> after, description |-> [text |-> text, student |-> s]]

\* C9: a successful add-funds (deduct-funds) of a positive amount changes
\* the profile's balance by exactly +amount (-amount), appends exactly one
\* ADD (DEDUCT) entry carrying that amount and the new balance, and returns
\* the new balance.
C9_FundsChangeByAmount ==
    [][\A r \in Requests :
          LET k == req[r].pk
              x == req[r].value
              after == profiles'[k].total_funds
          IN  /\ add_funds_save(r)
                 => after = profiles[k].total_funds + x
              /\ deduct_funds_save(r)
                 => after = profiles[k].total_funds - x
              /\ add_funds_record(r)
                 => /\ ledger' = Append(ledger, Entry(k, "ADD", x, after, "Added", "none"))
                    /\ req'[r].status = 200
                    /\ req'[r].total_funds = after
              /\ deduct_funds_record(r)
                 => /\ ledger' = Append(ledger, Entry(k, "DEDUCT", x, after, "Deducted", "none"))
                    /\ req'[r].status = 200
                    /\ req'[r].total_funds = after]_vars

\* C10: a successful sponsorship creation of amount a by a sponsor with
\* balance b >= a results in balance b - a, exactly one new DEDUCT entry
\* with amount a, balance_after b - a and a description naming the student,
\* and exactly one new Sponsorship row for that student.
C10_SponsorshipDeducts ==
    [][\A r \in Requests :
          LET k == req[r].pk
              x == req[r].value
              after == profiles'[k].total_funds
          IN  /\ (SponsorshipSerializer_create(r) /\ req'[r].pc = "deduct")
                 => sponsorships' = Append(sponsorships,
                        [sponsor |-> k, student |-> req[r].student,
                         course |-> req[r].course, amount |-> x])
              /\ (sponsorship_deduct(r) /\ req'[r].pc = "record")
                 => /\ profiles[k].total_funds >= x
                    /\ after = profiles[k].total_funds - x
              /\ sponsorship_record(r)
                 => /\ ledger' = Append(ledger,
                           Entry(k, "DEDUCT", x, after, "Sponsorship for", req[r].student))
                    /\ req'[r].status = 201]_vars

\* C11: a sponsorship-creation request whose amount is zero or negative is
\* rejected: it creates no Sponsorship row, appends no SponsorTransaction
\* and leaves the sponsor's balance unchanged.
C11_NonPositiveSponsorshipRejected ==
    [][\A r \in Requests :
          /\ (req[r].pc = "idle" /\ req'[r].op = "create_sponsorship")
             => \A u \in Users, s \in Students, a \in AnySponsorship :
                   ( /\ a.t = "num"
                     /\ a.v <= 0
                     /\ create_sponsorship(r, u, s, NoCourse, a) )
                   => /\ req'[r].pc = "done"
                      /\ req'[r].status \notin {200, 201}
          /\ (req[r].op = "create_sponsorship" /\ req[r].value <= 0)
             => /\ sponsorships' = sponsorships
                /\ ledger' = ledger
                /\ profiles' = profiles]_vars

C13_BalanceOnlyByFundOps ==
    [][\A k \in ProfileKeys :
          profiles'[k].total_funds # profiles[k].total_funds
          => \E r \in Requests :
                 /\ req[r].pk = k
                 /\ \/ add_funds_save(r)
                    \/ deduct_funds_save(r)
                    \/ sponsorship_deduct(r)]_vars

\* C15: a profile-creation request by a sponsor who already has a profile
\* is rejected and leaves the existing profile, its balance included,
\* unchanged, also while another request is being served.
C15_OneProfilePerSponsor ==
    [][\A r \in Requests :
          (req[r].pc = "idle" /\ req'[r].op = "create_profile")
          => \A u \in Users, f \in AnyFunds :
                (profiles[u].exists /\ create_profile(r, u, f))
                => /\ req'[r].pc = "done"
                   /\ req'[r].status \notin {200, 201}
                   /\ profiles' = profiles]_vars

C15_Witness ==
    \E r, q \in Requests :
        /\ req[r].pc = "done"
        /\ req[r].op = "create_profile"
        /\ req[r].error = "IntegrityError"
        /\ profiles[req[r].pk].exists
        /\ profiles[req[r].pk].total_funds > 0
        /\ q # r
        /\ req[q].pc # "idle"

\* C20: every SponsorTransaction entry has kind ADD or DEDUCT and a
\* strictly positive amount, whichever operation appended it.
C20_EntriesPositive ==
    \A i \in DOMAIN ledger :
        /\ ledger[i].transaction_type \in {"ADD", "DEDUCT"}
        /\ ledger[i].amount > 0

\* The rows of the log that belong to sponsor k.
OwnEntries(k) == {i \in DOMAIN ledger : ledger[i].sponsor = k}

\* C17: the transactions listing of a profile returns exactly the
\* SponsorTransaction entries of that profile's sponsor, all of them and
\* none of any other sponsor, newest first, and changes no balance, ledger
\* entry or sponsorship.
C17_ListingOwnNewestFirst ==
    [][\A r \in Requests :
          ( /\ req[r].pc = "idle"
            /\ req'[r].op = "view_transactions"
            /\ req'[r].status = 200 )
          => LET k == req'[r].pk
                 L == req'[r].listing
             IN  /\ Len(L) = Cardinality(OwnEntries(k))
                 /\ \E f \in [1..Len(L) -> OwnEntries(k)] :
                        /\ \A i, j \in 1..Len(L) : i < j => f[i] > f[j]
                        /\ \A i \in 1..Len(L) : L[i] = ledger[f[i]]
                 /\ profiles' = profiles
                 /\ ledger' = ledger
                 /\ sponsorships' = sponsorships]_vars

C17_Witness ==
    \E r \in Requests :
        /\ req[r].pc = "done"
        /\ req[r].op = "view_transactions"
        /\ req[r].status = 200
        /\ Len(req[r].listing) = 2
        /\ req[r].listing[1] # req[r].listing[2]
        /\ Len(ledger) > 2

\* The enrollments linked to the sponsorships of sponsor k: those of a
\* sponsored student, in the sponsored course if the sponsorship names one.
Linked(i, j) ==
    /\ enrollments[j].student = sponsorships[i].student
    /\ (sponsorships[i].course # NoCourse
           => enrollments[j].course = sponsorships[i].course)
LinkedEnrollments(k) ==
    {j \in DOMAIN enrollments :
        \E i \in DOMAIN sponsorships : sponsorships[i].sponsor = k /\ Linked(i, j)}
Links(k) ==
    {ij \in (DOMAIN sponsorships) \X (DOMAIN enrollments) :
        sponsorships[ij[1]].sponsor = k /\ Linked(ij[1], ij[2])}

RECURSIVE SumProgress(_)
SumProgress(S) ==
    IF S = {} THEN 0
    ELSE LET j == CHOOSE x \in S : TRUE
         IN  enrollments[j].progress + SumProgress(S \ {j})

RECURSIVE SumLinkProgress(_)
SumLinkProgress(S) ==
    IF S = {} THEN 0
    ELSE LET ij == CHOOSE x \in S : TRUE
         IN  enrollments[ij[2]].progress + SumLinkProgress(S \ {ij})

\* q is total / n to the nearest thousandth.
IsQuotient(q, total, n) ==
    /\ 2 * (q * n - total) <= n
    /\ 2 * (total - q * n) <= n

DashboardServed(r) ==
    /\ req[r].pc = "idle"
    /\ req'[r].op = "dashboard"
    /\ req'[r].status = 200

\* C18: the dashboard's average student progress is the sum of the
\* progress of the enrollments linked to the sponsor's sponsorships divided
\* by the number of those enrollments, and 0 when there is none; the
\* dashboard changes no state.
C18_AverageProgress ==
    [][\A r \in Requests :
          DashboardServed(r)
          => LET E == LinkedEnrollments(req'[r].pk)
                 n == Cardinality(E)
             IN  /\ n = 0 => req'[r].average = 0
                 /\ n > 0 => IsQuotient(req'[r].average, SumProgress(E), n)
                 /\ profiles' = profiles
                 /\ ledger' = ledger
                 /\ sponsorships' = sponsorships
                 /\ enrollments' = enrollments]_vars

\* The average of C18 when an enrollment counts once for every sponsorship
\* it is linked to.
AveragePerSponsorship ==
    [][\A r \in Requests :
          DashboardServed(r)
          => LET P == Links(req'[r].pk)
                 n == Cardinality(P)
             IN  /\ n = 0 => req'[r].average = 0
                 /\ n > 0 => IsQuotient(req'[r].average, SumLinkProgress(P), n)
                 /\ profiles' = profiles
                 /\ ledger' = ledger
                 /\ sponsorships' = sponsorships
                 /\ enrollments' = enrollments]_vars

\* Sponsor k holds two sponsorships, of 40.00 and of 20.00, for two
\* students, and has made no deposit.
TwoSponsorshipsNoDeposit(k) ==
    LET mine == SponsorshipsOf(k)
    IN  /\ Len(mine) = 2
        /\ {mine[1].amount, mine[2].amount} = {4000 * Cent, 2000 * Cent}
        /\ mine[1].student # mine[2].student
        /\ SumOfType(ledger, k, "ADD") = 0

\* C19: for a sponsor who holds two sponsorships of 40.00 and 20.00 and
\* has made no prior deposits, the dashboard reports total_funds_deducted =
\* 60.00 and total_students_sponsored = 2.
C19_DashboardScenario ==
    [][\A r \in Requests :
          (DashboardServed(r) /\ TwoSponsorshipsNoDeposit(req'[r].pk))
          => /\ req'[r].deducted = 6000 * Cent
             /\ req'[r].students = 2]_vars

\* C14: the SponsorTransaction log is append-only: across every step, each
\* entry that exists stays in the log with all its fields unchanged.
C14_LedgerAppendOnly ==
    [][\A i \in DOMAIN ledger :
          i \in DOMAIN ledger' /\ ledger'[i] = ledger[i]]_vars

\* C14, for the steps of SponsorProfileViewSet and SponsorshipViewSet's
\* creation alone: none of them rewrites or removes an entry.
ViewsAppendOnly ==
    [][(\A r \in Requests : req'[r].op \notin {"admin_change", "admin_delete"})
          => \A i \in DOMAIN ledger :
                i \in DOMAIN ledger' /\ ledger'[i] = ledger[i]]_vars

\* C16: a Sponsorship row is never changed or removed after it is
\* created.
C16_SponsorshipImmutable ==
    [][\A i \in DOMAIN sponsorships :
          i \in DOMAIN sponsorships' /\ sponsorships'[i] = sponsorships[i]]_vars

\* The most recent SponsorTransaction of sponsor k.
LastEntry(k) == ledger[CHOOSE i \in OwnEntries(k) : \A j \in OwnEntries(k) : j <= i]

\* C21: whenever no request is in flight and a sponsor has at least one
\* SponsorTransaction, the balance_after of the sponsor's most recent entry
\* equals the profile's balance, also after concurrent fund operations.
C21_LastEntryIsBalance ==
    Quiescent =>
        \A k \in ProfileKeys :
            (profiles[k].exists /\ OwnEntries(k) # {})
            => LastEntry(k).balance_after = profiles[k].total_funds

\* A profile that sponsor u may not address: another sponsor's, or none.
Foreign(u, k) == k # u \/ ~profiles[k].exists

NotFoundNoChange(r) ==
    /\ req'[r].pc = "done"
    /\ req'[r].status = 404
    /\ req'[r].error = "NotFound"
    /\ profiles' = profiles
    /\ ledger' = ledger

\* C22: an add-funds, deduct-funds or transactions-listing request of a
\* caller in the Sponsor group (no admin) addressed to another sponsor's
\* profile or to a profile that does not exist fails with NotFound and
\* changes no balance and no ledger entry.
C22_OwnProfileOnly ==
    [][\A r \in Requests :
          /\ (req[r].pc = "idle" /\ req'[r].op = "add_funds")
             => \A u \in SponsorGroup \ AdminGroup, a \in ListAmounts :
                   (Foreign(u, req'[r].pk) /\ add_funds(r, u, req'[r].pk, a, Absent))
                   => NotFoundNoChange(r)
          /\ (req[r].pc = "idle" /\ req'[r].op = "deduct_funds")
             => \A u \in SponsorGroup \ AdminGroup, a \in ListAmounts :
                   (Foreign(u, req'[r].pk) /\ deduct_funds(r, u, req'[r].pk, a))
                   => NotFoundNoChange(r)
          /\ (req[r].pc = "idle" /\ req'[r].op = "view_transactions")
             => \A u \in SponsorGroup \ AdminGroup :
                   (Foreign(u, req'[r].pk) /\ view_transactions(r, u, req'[r].pk))
                   => NotFoundNoChange(r)]_vars

C22_Witness ==
    \E r \in Requests :
        /\ req[r].pc = "done"
        /\ req[r].op \in {"add_funds", "deduct_funds", "view_transactions"}
        /\ req[r].status = 404
        /\ profiles[req[r].pk].exists
        /\ profiles[req[r].pk].total_funds > 0
        /\ ledger # <<>>
\* An enrollment request r inserts its row in this step.
Admits(r) ==
    /\ req[r].pc = "insert"
    /\ req[r].op \in {"enroll", "simulate_payment"}
    /\ req'[r].pc = "done"
    /\ Len(enrollments') > Len(enrollments)

\* C23: at most one Enrollment exists per (student, course) pair in every
\* reachable state, under every interleaving of enrollment-create and
\* simulate-payment requests; a request of an enrolled student adds no
\* second row.
C23_OneEnrollmentPerPair ==
    \A i, j \in DOMAIN enrollments :
        (/\ enrollments[i].student = enrollments[j].student
         /\ enrollments[i].course = enrollments[j].course) => i = j

\* Two requests for one pair overlapped, one inserted the row and the
\* other was refused by unique_together.
C23_Witness ==
    \E r \in Requests :
        /\ req[r].pc = "done"
        /\ req[r].error = "IntegrityError"
        /\ \E i \in DOMAIN enrollments : enrollments[i].student = req[r].pk

\* C24: an enrollment in a paid course (is_paid or price > 0) is inserted,
\* by enrollment-create or by simulate-payment, only while a Sponsorship for
\* that student and course or a Completed Transaction of that student for
\* that course exists.
C24_PaidNeedsFunding ==
    [][\A r \in Requests :
          (Admits(r) /\ req[r].course \in PaidCourses)
          => \/ has_sponsorship(req[r].student, req[r].course)
             \/ has_payment(req[r].student, req[r].course)]_vars

\* The DEDUCT entry of Sponsorship row i is in the ledger.
Deducted(i) ==
    \E j \in DOMAIN ledger :
        /\ ledger[j].transaction_type = "DEDUCT"
        /\ ledger[j].sponsor = sponsorships[i].sponsor
        /\ ledger[j].amount = sponsorships[i].amount
        /\ ledger[j].description.student = sponsorships[i].student

\* C25: when a student is admitted to a paid course without a completed
\* payment, hence on the strength of a Sponsorship, some Sponsorship of
\* that student and course has had its amount deducted from its sponsor's
\* balance: a sponsorship request that failed with insufficient funds
\* enables no enrollment.
C25_SponsoredAdmissionIsPaid ==
    [][\A r \in Requests :
          (/\ Admits(r)
           /\ req[r].op = "enroll"
           /\ req[r].course \in PaidCourses
           /\ ~has_payment(req[r].student, req[r].course))
          => \E i \in DOMAIN sponsorships :
                /\ sponsorships[i].student = req[r].student
                /\ sponsorships[i].course = req[r].course
                /\ Deducted(i)]_vars

\* C26: every Enrollment row inserted through the API has the requesting
\* user as its student, whatever student the payload carried.
C26_AttributedToCaller ==
    [][\A r \in Requests :
          Admits(r)
          => enrollments' = Append(enrollments,
                 [student |-> req[r].pk, course |-> req[r].course,
                  progress |-> req[r].value])]_vars

\* A request whose payload named another student was answered 201 and the
\* row is the caller's; the student the payload named has no row.
C26_Witness ==
    \E r \in Requests :
        /\ req[r].pc = "done"
        /\ req[r].op = "enroll"
        /\ req[r].status = 201
        /\ req[r].payload \notin {"none", req[r].pk}
        /\ \E i \in DOMAIN enrollments : enrollments[i].student = req[r].pk
        /\ \A i \in DOMAIN enrollments : enrollments[i].student # req[r].payload

\* C27: every step of an enrollment-create or simulate-payment request of a
\* caller outside the Student group leaves the Enrollment and Transaction
\* tables as they are, and the request is refused at once.
C27_StudentsOnlyEnroll ==
    [][\A r \in Requests :
          (/\ req'[r] # req[r]
           /\ req'[r].op \in {"enroll", "simulate_payment"}
           /\ req'[r].pk \in Users \ StudentGroup)
          => /\ enrollments' = enrollments
             /\ transactions' = transactions
             /\ req'[r].pc = "done"
             /\ req'[r].status \notin {200, 201}]_vars

\* C28: the progress of every Enrollment is between 0 and 100.
C28_ProgressInRange ==
    \A i \in DOMAIN enrollments :
        /\ enrollments[i].progress >= 0
        /\ enrollments[i].progress <= 10000 * Cent

\* C28, for update_progress alone: a value that float() refuses, a nan or
\* a value outside 0..100 is answered with 400 and changes no progress, and
\* a stored value is in the range.
UpdateProgressChecked ==
    [][\A r \in Requests :
          (req[r].pc = "idle" /\ req'[r].op = "update_progress")
          => /\ \A i \in DOMAIN enrollments :
                   enrollments'[i].progress # enrollments[i].progress
                   => /\ enrollments'[i].progress >= 0
                      /\ enrollments'[i].progress <= 10000 * Cent
                      /\ req'[r].status = 200
             /\ req'[r].status = 400 => enrollments' = enrollments]_vars
GradeInRange(g) == ~g.set \/ (g.v >= 0 /\ g.v <= 10000 * Cent)

\* The caller may grade Submission row i: admin/staff, or a member of the
\* Instructor group who is the instructor of the assessment's course.
MayGrade(user, i) ==
    \/ user \in AdminGroup
    \/ /\ user \in InstructorGroup
       /\ CourseRows[assessments[submissions[i].assessment].course].instructor
              = user

\* C29: every Submission's grade is unset or between 0 and 100; a grade
\* changes only in a grade_submission step answered 200 whose caller is
\* admin/staff or the Instructor-group instructor of the assessment's
\* course; a grade_submission with a grade that is no number or is out of
\* range, or from any other caller, is answered with an error and leaves
\* every grade as it was.
C29_GradeGuarded ==
    [][\A r \in Requests :
          /\ \A i \in DOMAIN submissions' : GradeInRange(submissions'[i].grade)
          /\ req'[r] # req[r]
             => \A i \in DOMAIN submissions :
                   submissions'[i].grade # submissions[i].grade
                   => /\ req'[r].op = "grade_submission"
                      /\ req'[r].status = 200
                      /\ MayGrade(req'[r].pk, i)
          /\ (req[r].pc = "idle" /\ req'[r].op = "grade_submission")
             => \A i \in RowIds, g \in AnyGrade :
                   (/\ \/ g.t # "num" \/ g.v < 0 \/ g.v > 10000 * Cent
                       \/ i \notin DOMAIN submissions
                       \/ ~MayGrade(req'[r].pk, i)
                    /\ grade_submission(r, req'[r].pk, i, g))
                   => /\ submissions' = submissions
                      /\ req'[r].status \in {400, 403, 404}]_vars

\* A submission has been graded and a later grade_submission was refused.
C29_Witness ==
    \E r \in Requests :
        /\ req[r].pc = "done"
        /\ req[r].op = "grade_submission"
        /\ req[r].status \in {400, 403}
        /\ \E i \in DOMAIN submissions : submissions[i].grade.set

\* C30: an assessment-creation request of a user who is not the instructor
\* of the target course creates no Assessment and is answered 403; an
\* Assessment is created only when the requester is the instructor of its
\* course.
C30_NonInstructorForbidden ==
    [][\A r \in Requests :
          (req[r].pc = "idle" /\ req'[r].op = "create_assessment")
          => IF CourseRows[req'[r].course].instructor # req'[r].pk
             THEN assessments' = assessments /\ req'[r].status = 403
             ELSE assessments' = Append(assessments, [course |-> req'[r].course])]_vars

\* C30, without the status: no Assessment is created for a requester who
\* is not the instructor of the course.
OnlyInstructorCreates ==
    [][\A r \in Requests :
          (/\ req[r].pc = "idle"
           /\ req'[r].op = "create_assessment"
           /\ CourseRows[req'[r].course].instructor # req'[r].pk)
          => assessments' = assessments]_vars
====
